---- MODULE Spec2Model ----
(***************************************************************************)
(* TupleSamplesStorage (src/optimizer/stats/tuple_samples_storage.cpp):    *)
(* the sample tables of the optimizer, kept in the samples database.       *)
(*                                                                         *)
(* The catalog, the transaction manager, the executors and the tuple       *)
(* sampler are collaborators of this file.  They are modelled at the       *)
(* interface the file consumes.  A transaction that the file begins and    *)
(* commits itself is one atomic step: the isolation is the transaction     *)
(* manager's, and the threads interleave between transactions.  An         *)
(* operation done under a transaction of the caller is serialised at the   *)
(* point of the call.                                                      *)
(***************************************************************************)
EXTENDS Integers, Sequences, FiniteSets

\* ----------------------------------------------------------------- bounds

\* Rows the sampler may return for one table (scaled down from the header).
SAMPLE_COUNT_PER_TABLE == 2

\* Rows of one result batch of a sequential scan (one tile group).
TuplesPerTileGroup == 1

\* Catalog or executor calls that fail for engine-internal reasons in one run.
MaxFaults == 1

\* The largest oid of a database or a table a name is generated for.
MaxOid == 23

\* ------------------------------------------------------------ the universe

\* Thread 1 is a session that makes any call; thread 2 is the statistics job,
\* which only refreshes.
Threads == {1, 2}

Sessions == {1}

\* (database oid, table oid) of the user tables.
Pairs == {<<1, 23>>, <<12, 3>>}

\* The user table both threads work on when they run together.
SharedPairs == {<<1, 23>>}

\* The rows of a user table: two columns each.  The source data is fixed.
SourceRows == <<(<<10, 20>>), (<<11, 21>>)>>

\* Column count of the schema of every user table.
ColumnCount == Len(SourceRows[1])

\* Contents of the accumulator handed to GetColumnSamples.
Accumulators == {<<>>, <<7>>}

NoCall == [op |-> "none", pair |-> <<0, 0>>, txn |-> "null", data_table |-> 0,
           sampled |-> <<>>, column_id |-> 0, acc |-> <<>>]

\* History of a refresh that returned: what the sampler gave it, the rows its
\* inserts stored, the rows and tables of its pair when it returned, and
\* whether a catalog call or an insert failed for internal reasons.
\* stale: the thread whose refresh has dropped the table since, 0 for none.
NoRefresh == [set |-> FALSE, sampled |-> <<>>, inserted |-> <<>>, count |-> 0,
              ntables |-> 0, fault |-> FALSE, failedInsert |-> FALSE,
              stale |-> 0]

NoRet == [code |-> "NONE", tiles |-> <<>>, acc |-> <<>>, after |-> NoRefresh,
          handle |-> 0, name |-> <<>>]

\* The name of the samples database.
SAMPLES_DB_NAME == "samples_db"

\* &global_tuple_samples_storage: the one object of static storage.
InstanceAddress == 1

\* The singleton and the samples database once the constructor has run:
\* guard is the state of the function-local static, databases the names in the
\* catalog, log the transaction and catalog calls of the constructor, result
\* what CreateDatabase returned.
Booted == [guard |-> "done", databases |-> <<SAMPLES_DB_NAME>>,
           log |-> <<"Begin", "CreateDatabase", "Commit">>,
           result |-> "SUCCESS"]

\* The same before the first GetInstance(), the catalog holding dbs.
Unbooted(dbs) == [guard |-> "uninit", databases |-> dbs, log |-> <<>>,
                  result |-> "NONE"]

NoSteps == [drop |-> "NONE", create |-> "NONE", interfered |-> FALSE,
            prev |-> NoRefresh, this |-> NoRefresh]

VARIABLES
  tables,     \* the sample tables of the samples database, in creation order
  pc,         \* the position of each thread
  call,       \* the call each thread is in, with its arguments
  ret,        \* what the finished call of each thread returned
  log,        \* the transaction and catalog calls of each thread's call
  steps,      \* history: the results of the steps of each thread's refresh
  last,       \* history: per pair, the refresh that returned last, when no
              \* other call has touched the pair during it or since
  budget,     \* engine-internal failures still to come
  crashed,    \* the process has stopped on a null table handle
  boot        \* the singleton's construction and the databases of the catalog

vars == <<tables, pc, call, ret, log, steps, last, budget, crashed, boot>>

\* ---------------------------------------------------------------- naming

DigitChars == <<"0", "1", "2", "3", "4", "5", "6", "7", "8", "9">>

RECURSIVE to_string(_)
\* std::to_string of an oid.
to_string(n) ==
  IF n < 10 THEN <<DigitChars[n + 1]>>
  ELSE to_string(n \div 10) \o <<DigitChars[(n % 10) + 1]>>

\* The oids a name is generated for, and their pairs.
Oids == 0..MaxOid

OidPairs == Oids \X Oids

\* A name that is the two numbers with nothing between them.
GenerateSamplesTableNameNoSeparator(database_id, table_id) ==
  to_string(database_id) \o to_string(table_id)

\* "The table name is generated by concatenating db_id and table_id with '_'".
GenerateSamplesTableName(database_id, table_id) ==
  to_string(database_id) \o <<"_">> \o to_string(table_id)

NameOf(p) == GenerateSamplesTableName(p[1], p[2])

\* --------------------------------------------------------------- catalog

HasTable(cat, name) == \E i \in 1..Len(cat) : cat[i].name = name

\* Catalog::GetTableWithName: the handle of the table, 0 for nullptr.
GetTableWithName(cat, name) ==
  IF HasTable(cat, name)
  THEN CHOOSE i \in 1..Len(cat) :
         /\ cat[i].name = name
         /\ \A j \in 1..Len(cat) : cat[j].name = name => i <= j
  ELSE 0

\* A catalog that does not look for the name before it creates the table.
CreateTableNoDuplicateCheck(cat, name, schema, fault) ==
  IF fault
  THEN [result |-> "FAILURE", cat |-> cat]
  ELSE [result |-> "SUCCESS",
        cat |-> Append(cat, [name |-> name, schema |-> schema, rows |-> <<>>])]

\* Catalog::CreateTable: fails on a duplicate name or for internal reasons.
CreateTable(cat, name, schema, fault) ==
  IF fault \/ HasTable(cat, name)
  THEN [result |-> "FAILURE", cat |-> cat]
  ELSE [result |-> "SUCCESS",
        cat |-> Append(cat, [name |-> name, schema |-> schema, rows |-> <<>>])]

\* Catalog::DropTable: fails when the table does not exist or for internal
\* reasons, and then changes nothing.
DropTable(cat, name, fault) ==
  IF fault \/ ~HasTable(cat, name)
  THEN [result |-> "FAILURE", cat |-> cat]
  ELSE [result |-> "SUCCESS",
        cat |-> SelectSeq(cat, LAMBDA t : t.name # name)]

\* InsertExecutor::Execute of a one-row InsertPlan on the table at handle h.
InsertExecute(cat, h, row, ok) ==
  IF ok THEN [cat EXCEPT ![h].rows = Append(@, row)] ELSE cat

\* TupleSampler: at most max_count rows of the table, in table order.
RECURSIVE SubSeqs(_)
SubSeqs(s) ==
  IF s = <<>> THEN {<<>>}
  ELSE LET rest == SubSeqs(Tail(s))
       IN rest \cup {<<Head(s)>> \o r : r \in rest}

AcquireSampleTuples(max_count) ==
  {s \in SubSeqs(SourceRows) : Len(s) <= max_count}

\* ------------------------------------------------------------------ scan

Project(row, column_ids) ==
  [val |-> [k \in 1..Len(column_ids) |-> row.val[column_ids[k] + 1]],
   by |-> row.by, k |-> row.k, n |-> row.n]

RECURSIVE Batches(_, _)
\* SeqScanExecutor: one logical tile per tile group that holds rows.
Batches(rows, column_ids) ==
  IF rows = <<>> THEN <<>>
  ELSE LET n == IF Len(rows) < TuplesPerTileGroup THEN Len(rows)
                ELSE TuplesPerTileGroup
       IN <<[k \in 1..n |-> Project(rows[k], column_ids)]>>
          \o Batches(SubSeq(rows, n + 1, Len(rows)), column_ids)

\* GetTuplesWithSeqScan: nothing without a transaction (nullptr, which no
\* caller in this file meets), else every batch the scan yields, in order.
GetTuplesWithSeqScan(cat, data_table, column_offsets, txn) ==
  IF txn = "null" THEN <<>> ELSE Batches(cat[data_table].rows, column_offsets)

RECURSIVE Flatten(_)
Flatten(tiles) ==
  IF tiles = <<>> THEN <<>> ELSE Head(tiles) \o Flatten(Tail(tiles))

\* ------------------------------------------------------------ the handlers

\* The sampled tuples, each marked with the refresh it comes from (the thread
\* that runs it), its place among the sampled tuples and their number.
Tag(tuples, t) ==
  [k \in 1..Len(tuples) |->
     [val |-> tuples[k], by |-> t, k |-> k, n |-> Len(tuples)]]

\* InsertSampleTuple that reports success without running the executor.
InsertSampleTupleNoExecute(cat, samples_table, tuple, txn, ok) ==
  IF txn = "null" THEN [status |-> FALSE, cat |-> cat]
  ELSE [status |-> TRUE, cat |-> cat]

\* InsertSampleTuple: false without a transaction, else the executor's status.
InsertSampleTuple(cat, samples_table, tuple, txn, ok) ==
  IF txn = "null" THEN [status |-> FALSE, cat |-> cat]
  ELSE [status |-> ok, cat |-> InsertExecute(cat, samples_table, tuple, ok)]

RECURSIVE InsertLoop(_, _, _, _, _)
\* The loop over sampled_tuples of AddSamplesTable: the statuses are ignored.
InsertLoop(cat, samples_table, tuples, oks, k) ==
  IF k > Len(tuples) THEN [cat |-> cat, statuses |-> <<>>]
  ELSE LET i    == InsertSampleTuple(cat, samples_table, tuples[k], "own", oks[k])
           rest == InsertLoop(i.cat, samples_table, tuples, oks, k + 1)
       IN [cat |-> rest.cat, statuses |-> <<i.status>> \o rest.statuses]

\* AddSamplesTable with a table handle: one transaction that creates the
\* table, looks it up by name, inserts every tuple and commits.
AddSamplesTable(cat, pair, sampled_tuples, createFault, oks) ==
  LET samples_table_name == GenerateSamplesTableName(pair[1], pair[2])
      c == CreateTable(cat, samples_table_name, ColumnCount, createFault)
      samples_table == GetTableWithName(c.cat, samples_table_name)
      l == IF samples_table = 0
           THEN [cat |-> c.cat,
                 statuses |-> [k \in 1..Len(sampled_tuples) |-> FALSE]]
           ELSE InsertLoop(c.cat, samples_table, sampled_tuples, oks, 1)
  IN [cat |-> l.cat, create |-> c.result, samples_table |-> samples_table,
      statuses |-> l.statuses,
      log |-> <<"Begin", "CreateTable", "GetTableWithName">>
              \o [k \in 1..Len(sampled_tuples) |-> "Insert"] \o <<"Commit">>]

\* DeleteSamplesTable that reports success whatever the catalog said.
DeleteSamplesTableAlwaysSuccess(cat, database_id, table_id, txn, fault) ==
  LET d == DropTable(cat, GenerateSamplesTableName(database_id, table_id), fault)
  IN [result |-> "SUCCESS", cat |-> d.cat,
      log |-> IF txn = "null" THEN <<"Begin", "DropTable", "Commit">>
              ELSE <<"DropTable(caller)">>]

\* DeleteSamplesTable whose drop takes every sample table with it.
DeleteSamplesTableDropsAll(cat, database_id, table_id, txn, fault) ==
  LET d == DropTable(cat, GenerateSamplesTableName(database_id, table_id), fault)
  IN [result |-> d.result,
      cat |-> IF d.result = "SUCCESS" THEN <<>> ELSE cat,
      log |-> IF txn = "null" THEN <<"Begin", "DropTable", "Commit">>
              ELSE <<"DropTable(caller)">>]

\* DeleteSamplesTable that commits whatever transaction it has used.
DeleteSamplesTableCommitsAlways(cat, database_id, table_id, txn, fault) ==
  LET d == DropTable(cat, GenerateSamplesTableName(database_id, table_id), fault)
  IN [result |-> d.result, cat |-> d.cat,
      log |-> IF txn = "null" THEN <<"Begin", "DropTable", "Commit">>
              ELSE <<"DropTable(caller)", "Commit(caller)">>]

\* DeleteSamplesTable: the drop under the caller's transaction, or under a
\* transaction of its own when the caller gives none; returns the drop's code.
DeleteSamplesTable(cat, database_id, table_id, txn, fault) ==
  LET single_statement_txn == (txn = "null")
      samples_table_name == GenerateSamplesTableName(database_id, table_id)
      d == DropTable(cat, samples_table_name, fault)
  IN [result |-> d.result, cat |-> d.cat,
      log |-> IF single_statement_txn
              THEN <<"Begin", "DropTable", "Commit">>
              ELSE <<"DropTable(caller)">>]

\* The call of CollectSamplesForTable handing on the transaction of its caller.
CollectDeleteCallJoined(cat, data_table, fault) ==
  DeleteSamplesTable(cat, data_table[1], data_table[2], "open", fault)

\* The call of CollectSamplesForTable with the oids the wrong way round.
CollectDeleteCallSwapped(cat, data_table, fault) ==
  DeleteSamplesTable(cat, data_table[2], data_table[1], "null", fault)

\* DeleteSamplesTable(data_table->GetDatabaseOid(), data_table->GetOid()):
\* the transaction argument defaults to nullptr.
CollectDeleteCall(cat, data_table, fault) ==
  DeleteSamplesTable(cat, data_table[1], data_table[2], "null", fault)

\* GetColumnSamples that marks an empty scan with a value in the accumulator.
AppendColumnSamplesMarksEmpty(column_samples, result_tiles) ==
  IF Len(result_tiles) # 0
  THEN column_samples
       \o [k \in 1..Len(result_tiles[1]) |-> result_tiles[1][k].val[1]]
  ELSE Append(column_samples, 0)

\* GetColumnSamples after the scan: the values of the first tile only.
AppendColumnSamples(column_samples, result_tiles) ==
  IF Len(result_tiles) # 0
  THEN column_samples
       \o [k \in 1..Len(result_tiles[1]) |-> result_tiles[1][k].val[1]]
  ELSE column_samples

\* ------------------------------------------------------------- histories

TablesNamed(cat, name) == {i \in 1..Len(cat) : cat[i].name = name}

RowCount(cat, name) ==
  IF HasTable(cat, name) THEN Len(cat[GetTableWithName(cat, name)].rows) ELSE 0

InRefresh(u) == pc[u] \in {"collect_delete", "collect_add"}

\* Thread t has changed, or tried to change, the sample table of pair p.
Disturb(st, t, p) ==
  [u \in Threads |->
     IF u # t /\ InRefresh(u) /\ call[u].pair = p
     THEN [st[u] EXCEPT !.interfered = TRUE] ELSE st[u]]

RECURSIVE Kept(_, _)
\* The tuples whose insert reported success.
Kept(tuples, statuses) ==
  IF tuples = <<>> THEN <<>>
  ELSE (IF Head(statuses) THEN <<Head(tuples)>> ELSE <<>>)
       \o Kept(Tail(tuples), Tail(statuses))

FaultCount(flags) == Cardinality({k \in 1..Len(flags) : ~flags[k]})

\* ---------------------------------------------------------------- actions

Init ==
  /\ tables = <<>>
  /\ pc = [t \in Threads |-> "idle"]
  /\ call = [t \in Threads |-> NoCall]
  /\ ret = [t \in Threads |-> NoRet]
  /\ log = [t \in Threads |-> <<>>]
  /\ steps = [t \in Threads |-> NoSteps]
  /\ last = [p \in Pairs |-> NoRefresh]
  /\ budget = MaxFaults
  /\ crashed = FALSE
  /\ boot = Booted

\* CollectSamplesForTable that samples and goes on without a transaction.
CollectNoTxnGoesOn(t, p) ==
  /\ ~crashed /\ pc[t] = "idle"
  /\ \E s \in AcquireSampleTuples(SAMPLE_COUNT_PER_TABLE) :
       call' = [call EXCEPT ![t] = [NoCall EXCEPT !.op = "Collect", !.pair = p,
                                    !.sampled = s]]
  /\ pc' = [pc EXCEPT ![t] = "collect_delete"]
  /\ steps' = [steps EXCEPT ![t] = NoSteps]
  /\ UNCHANGED <<tables, ret, log, last, budget, crashed, boot>>

\* CollectSamplesForTable(data_table, nullptr): FAILURE at once.
CollectNoTxn(t, p) ==
  /\ ~crashed /\ pc[t] = "idle"
  /\ pc' = [pc EXCEPT ![t] = "done"]
  /\ call' = [call EXCEPT ![t] = [NoCall EXCEPT !.op = "Collect", !.pair = p]]
  /\ ret' = [ret EXCEPT ![t] = [NoRet EXCEPT !.code = "FAILURE"]]
  /\ UNCHANGED <<tables, log, steps, last, budget, crashed, boot>>

\* InsertSampleTuple(samples_table, tuple, nullptr), samples_table being what
\* the catalog has for the pair: false at once.
InsertSampleTupleNoTxn(t, p, tuple) ==
  /\ ~crashed /\ pc[t] = "idle"
  /\ LET samples_table == GetTableWithName(tables, NameOf(p))
         i == InsertSampleTuple(tables, samples_table, Tag(<<tuple>>, t)[1],
                                "null", TRUE)
     IN /\ tables' = i.cat
        /\ ret' = [ret EXCEPT ![t] =
             [NoRet EXCEPT !.code = IF i.status THEN "TRUE" ELSE "FALSE"]]
        /\ call' = [call EXCEPT ![t] =
             [NoCall EXCEPT !.op = "InsertSampleTuple", !.pair = p,
                            !.data_table = samples_table,
                            !.sampled = <<tuple>>]]
  /\ pc' = [pc EXCEPT ![t] = "done"]
  /\ UNCHANGED <<log, steps, last, budget, crashed, boot>>

\* CollectSamplesForTable with a transaction, up to the sampler's return.
CollectSample(t, p) ==
  /\ ~crashed /\ pc[t] = "idle"
  /\ \E s \in AcquireSampleTuples(SAMPLE_COUNT_PER_TABLE) :
       call' = [call EXCEPT ![t] = [NoCall EXCEPT !.op = "Collect", !.pair = p,
                                    !.txn = "open", !.sampled = s]]
  /\ pc' = [pc EXCEPT ![t] = "collect_delete"]
  /\ steps' = [steps EXCEPT ![t] = NoSteps]
  /\ UNCHANGED <<tables, ret, log, last, budget, crashed, boot>>

\* CollectSamplesForTable: DeleteSamplesTable(database oid, table oid), in a
\* transaction of its own; the result is dropped.
CollectDelete(t) ==
  /\ ~crashed /\ pc[t] = "collect_delete"
  /\ \E fault \in BOOLEAN :
       /\ fault => budget > 0 /\ HasTable(tables, NameOf(call[t].pair))
       /\ LET p == call[t].pair
              d == CollectDeleteCall(tables, p, fault)
          IN /\ tables' = d.cat
             /\ log' = [log EXCEPT ![t] = @ \o d.log]
             /\ steps' = [Disturb(steps, t, p) EXCEPT
                            ![t].drop = d.result,
                            ![t].this.fault = fault]
             /\ last' = [last EXCEPT ![p] =
                  IF @.set /\ @.stale = 0 /\ ~steps[t].interfered
                  THEN [@ EXCEPT !.stale = t] ELSE NoRefresh]
       /\ budget' = budget - (IF fault THEN 1 ELSE 0)
  /\ pc' = [pc EXCEPT ![t] = "collect_add"]
  /\ UNCHANGED <<call, ret, crashed, boot>>

\* CollectSamplesForTable that returns without adding when the drop failed.
CollectAddOnlyAfterDrop(t) ==
  /\ ~crashed /\ pc[t] = "collect_add"
  /\ steps[t].drop = "FAILURE"
  /\ pc' = [pc EXCEPT ![t] = "done"]
  /\ ret' = [ret EXCEPT ![t] = [NoRet EXCEPT !.code = "SUCCESS"]]
  /\ UNCHANGED <<tables, call, log, steps, last, budget, crashed, boot>>

\* CollectSamplesForTable: AddSamplesTable(data_table, sampled tuples), then
\* return SUCCESS.  An insert through a null table handle is undefined: the
\* process stops there, or the insert reports failure.
CollectAdd(t) ==
  /\ ~crashed /\ pc[t] = "collect_add"
  /\ \E createFault \in BOOLEAN,
        oks \in [1..Len(call[t].sampled) -> BOOLEAN],
        stop \in BOOLEAN :
       LET p == call[t].pair
           tuples == Tag(call[t].sampled, t)
           a == AddSamplesTable(tables, p, tuples, createFault, oks)
           n == (IF createFault THEN 1 ELSE 0) + FaultCount(oks)
           kept == Kept(tuples, a.statuses)
           this == [set |-> TRUE, sampled |-> call[t].sampled,
                    inserted |-> kept,
                    count |-> RowCount(a.cat, NameOf(p)),
                    ntables |-> Cardinality(TablesNamed(a.cat, NameOf(p))),
                    fault |-> steps[t].this.fault \/ createFault,
                    failedInsert |-> Len(kept) # Len(tuples),
                    stale |-> 0]
           prev == IF ~steps[t].interfered /\ last[p].stale = t
                   THEN last[p] ELSE NoRefresh
       IN /\ n <= budget
          /\ createFault => ~HasTable(tables, NameOf(p))
          /\ a.samples_table = 0 => FaultCount(oks) = 0
          /\ stop => a.samples_table = 0 /\ tuples # <<>>
          /\ budget' = budget - n
          /\ crashed' = stop
          /\ IF stop
             THEN /\ pc' = [pc EXCEPT ![t] = "stopped"]
                  /\ log' = [log EXCEPT ![t] =
                               @ \o <<"Begin", "CreateTable", "GetTableWithName">>]
                  /\ steps' = [steps EXCEPT ![t].create = a.create]
                  /\ UNCHANGED <<tables, ret, last>>
             ELSE /\ tables' = a.cat
                  /\ pc' = [pc EXCEPT ![t] = "done"]
                  /\ log' = [log EXCEPT ![t] = @ \o a.log]
                  /\ steps' = [Disturb(steps, t, p) EXCEPT
                                 ![t].create = a.create, ![t].this = this,
                                 ![t].prev = prev]
                  /\ ret' = [ret EXCEPT ![t] = [NoRet EXCEPT !.code = "SUCCESS"]]
                  /\ last' = [last EXCEPT ![p] =
                       IF steps[t].interfered THEN NoRefresh ELSE this]
  /\ UNCHANGED <<call, boot>>

\* DeleteSamplesTable(database_id, table_id, txn) called from outside.
Delete(t, p, txn) ==
  /\ ~crashed /\ pc[t] = "idle"
  /\ \E fault \in BOOLEAN :
       /\ fault => budget > 0 /\ HasTable(tables, NameOf(p))
       /\ LET d == DeleteSamplesTable(tables, p[1], p[2], txn, fault)
          IN /\ tables' = d.cat
             /\ log' = [log EXCEPT ![t] = d.log]
             /\ ret' = [ret EXCEPT ![t] = [NoRet EXCEPT !.code = d.result]]
       /\ budget' = budget - (IF fault THEN 1 ELSE 0)
  /\ pc' = [pc EXCEPT ![t] = "done"]
  /\ call' = [call EXCEPT ![t] = [NoCall EXCEPT !.op = "Delete", !.pair = p,
                                                !.txn = txn]]
  /\ steps' = Disturb(steps, t, p)
  /\ last' = [last EXCEPT ![p] = NoRefresh]
  /\ UNCHANGED <<crashed, boot>>

\* GetTupleSamples(database_id, table_id).  GetSchema() through a null table
\* handle is undefined: the process stops there, or the call comes back with
\* no tiles.
GetTupleSamples(t, p) ==
  /\ ~crashed /\ pc[t] = "idle"
  /\ call' = [call EXCEPT ![t] =
       [NoCall EXCEPT !.op = "GetTupleSamples", !.pair = p,
                      !.data_table = GetTableWithName(tables, NameOf(p))]]
  /\ LET data_table == GetTableWithName(tables, NameOf(p))
         col_count == IF data_table = 0 THEN 0 ELSE tables[data_table].schema
         column_ids == [col_id \in 1..col_count |-> col_id - 1]
     IN IF data_table = 0
        THEN \E stop \in BOOLEAN :
               /\ crashed' = stop
               /\ pc' = [pc EXCEPT ![t] = IF stop THEN "stopped" ELSE "done"]
               /\ log' = [log EXCEPT ![t] =
                    <<"Begin", "GetTableWithName">>
                    \o (IF stop THEN <<>> ELSE <<"Commit">>)]
               /\ ret' = [ret EXCEPT ![t] =
                    [NoRet EXCEPT !.code = IF stop THEN "NONE" ELSE "NULL"]]
        ELSE /\ crashed' = FALSE
             /\ pc' = [pc EXCEPT ![t] = "done"]
             /\ log' = [log EXCEPT ![t] =
                  <<"Begin", "GetTableWithName", "Scan", "Commit">>]
             /\ ret' = [ret EXCEPT ![t] =
                  [NoRet EXCEPT !.code = "TILES",
                                !.tiles = GetTuplesWithSeqScan(tables, data_table,
                                                               column_ids, "own"),
                                !.after = IF last[p].stale = 0 THEN last[p]
                                          ELSE NoRefresh]]
  /\ UNCHANGED <<tables, steps, last, budget, boot>>

\* GetColumnSamples(database_id, table_id, column_id, column_samples).  The
\* scan of a null table handle is undefined, as in GetTupleSamples.
GetColumnSamples(t, p, column_id, column_samples) ==
  /\ ~crashed /\ pc[t] = "idle"
  /\ call' = [call EXCEPT ![t] =
       [NoCall EXCEPT !.op = "GetColumnSamples", !.pair = p,
                      !.column_id = column_id, !.acc = column_samples,
                      !.data_table = GetTableWithName(tables, NameOf(p))]]
  /\ LET data_table == GetTableWithName(tables, NameOf(p))
         column_ids == <<column_id>>
     IN IF data_table = 0
        THEN \E stop \in BOOLEAN :
               /\ crashed' = stop
               /\ pc' = [pc EXCEPT ![t] = IF stop THEN "stopped" ELSE "done"]
               /\ log' = [log EXCEPT ![t] =
                    <<"Begin", "GetTableWithName">>
                    \o (IF stop THEN <<>> ELSE <<"Commit">>)]
               /\ ret' = [ret EXCEPT ![t] =
                    [NoRet EXCEPT !.code = IF stop THEN "NONE" ELSE "VOID",
                                  !.acc = column_samples]]
        ELSE LET result_tiles == GetTuplesWithSeqScan(tables, data_table,
                                                      column_ids, "own")
             IN /\ crashed' = FALSE
                /\ pc' = [pc EXCEPT ![t] = "done"]
                /\ log' = [log EXCEPT ![t] =
                     <<"Begin", "GetTableWithName", "Scan", "Commit">>]
                /\ ret' = [ret EXCEPT ![t] =
                     [NoRet EXCEPT !.code = "VOID",
                                   !.tiles = result_tiles,
                                   !.acc = AppendColumnSamples(column_samples,
                                                               result_tiles)]]
  /\ UNCHANGED <<tables, steps, last, budget, boot>>

\* The caller takes the result; the thread is free for the next call.
Return(t) ==
  /\ ~crashed /\ pc[t] = "done"
  /\ pc' = [pc EXCEPT ![t] = "idle"]
  /\ call' = [call EXCEPT ![t] = NoCall]
  /\ ret' = [ret EXCEPT ![t] = NoRet]
  /\ log' = [log EXCEPT ![t] = <<>>]
  /\ steps' = [steps EXCEPT ![t] = NoSteps]
  /\ UNCHANGED <<tables, last, budget, crashed, boot>>

\* The calls of a session on the pairs of P, each one transaction or none.
SessionCall(t, P) ==
  \/ \E p \in P : CollectNoTxn(t, p)
  \/ \E p \in P, k \in 1..Len(SourceRows) :
       InsertSampleTupleNoTxn(t, p, SourceRows[k])
  \/ \E p \in P, txn \in {"null", "open"} : Delete(t, p, txn)
  \/ \E p \in P : GetTupleSamples(t, p)
  \/ \E p \in P, column_id \in 0..(ColumnCount - 1),
        column_samples \in Accumulators :
       GetColumnSamples(t, p, column_id, column_samples)

\* A refresh of a pair of P, one transaction at a time, and the return.
RefreshStep(t, P) ==
  \/ \E p \in P : CollectSample(t, p)
  \/ CollectDelete(t)
  \/ CollectAdd(t)
  \/ Return(t)

\* The session and the statistics job, on the same user table.
Next ==
  \/ \E t \in Threads : RefreshStep(t, SharedPairs)
  \/ \E t \in Sessions : SessionCall(t, SharedPairs)

Spec == Init /\ [][Next]_vars

\* The same threads when no catalog call and no insert fails internally.
InitNoFault ==
  /\ tables = <<>>
  /\ pc = [t \in Threads |-> "idle"]
  /\ call = [t \in Threads |-> NoCall]
  /\ ret = [t \in Threads |-> NoRet]
  /\ log = [t \in Threads |-> <<>>]
  /\ steps = [t \in Threads |-> NoSteps]
  /\ last = [p \in Pairs |-> NoRefresh]
  /\ budget = 0
  /\ crashed = FALSE
  /\ boot = Booted

SpecNoFault == InitNoFault /\ [][Next]_vars

\* One session alone, on every user table.
NextSession ==
  \E t \in Sessions : RefreshStep(t, Pairs) \/ SessionCall(t, Pairs)

SpecSession == Init /\ [][NextSession]_vars

\* ------------------------------------------------------------- bootstrap

\* Catalog::CreateDatabase: fails on a duplicate name or for internal reasons.
CreateDatabase(dbs, name, fault) ==
  IF fault \/ \E i \in 1..Len(dbs) : dbs[i] = name
  THEN [result |-> "FAILURE", dbs |-> dbs]
  ELSE [result |-> "SUCCESS", dbs |-> Append(dbs, name)]

\* A function-local static that every thread initialises which finds it not
\* yet initialised, another thread being at it or not.
StaticNeedsInitUnguarded(guard) == guard # "done"

\* static TupleSamplesStorage global_tuple_samples_storage: the thread that
\* finds the static uninitialised runs the constructor; a thread that comes
\* while the constructor runs waits for it.
StaticNeedsInit(guard) == guard = "uninit"

\* GetInstance() by the thread that is to initialise the static.
GetInstanceFirst(t) ==
  /\ ~crashed /\ pc[t] = "idle"
  /\ StaticNeedsInit(boot.guard)
  /\ boot' = [boot EXCEPT !.guard = "constructing"]
  /\ pc' = [pc EXCEPT ![t] = "construct"]
  /\ call' = [call EXCEPT ![t] = [NoCall EXCEPT !.op = "GetInstance"]]
  /\ UNCHANGED <<tables, ret, log, steps, last, budget, crashed>>

\* GetInstance() while another thread runs the constructor.
GetInstanceWait(t) ==
  /\ ~crashed /\ pc[t] = "idle"
  /\ ~StaticNeedsInit(boot.guard) /\ boot.guard = "constructing"
  /\ pc' = [pc EXCEPT ![t] = "wait_static"]
  /\ call' = [call EXCEPT ![t] = [NoCall EXCEPT !.op = "GetInstance"]]
  /\ UNCHANGED <<tables, ret, log, steps, last, budget, crashed, boot>>

\* The constructor: CreateSamplesDatabase(), one transaction; the result of
\* CreateDatabase is dropped.
CreateSamplesDatabase(t) ==
  /\ ~crashed /\ pc[t] = "construct"
  /\ \E fault \in BOOLEAN :
       /\ fault => budget > 0
       /\ LET c == CreateDatabase(boot.databases, SAMPLES_DB_NAME, fault)
          IN boot' = [boot EXCEPT
                        !.databases = c.dbs, !.result = c.result,
                        !.log = @ \o <<"Begin", "CreateDatabase", "Commit">>]
       /\ budget' = budget - (IF fault THEN 1 ELSE 0)
  /\ log' = [log EXCEPT ![t] = <<"Begin", "CreateDatabase", "Commit">>]
  /\ pc' = [pc EXCEPT ![t] = "constructed"]
  /\ UNCHANGED <<tables, call, ret, steps, last, crashed>>

\* The constructor returns: the static is initialised, and GetInstance()
\* returns its address.
ConstructorReturn(t) ==
  /\ ~crashed /\ pc[t] = "constructed"
  /\ boot' = [boot EXCEPT !.guard = "done"]
  /\ pc' = [pc EXCEPT ![t] = "done"]
  /\ ret' = [ret EXCEPT ![t] = [NoRet EXCEPT !.code = "INSTANCE",
                                             !.handle = InstanceAddress]]
  /\ UNCHANGED <<tables, call, log, steps, last, budget, crashed>>

\* The thread that waited finds the static initialised.
GetInstanceResume(t) ==
  /\ ~crashed /\ pc[t] = "wait_static"
  /\ boot.guard = "done"
  /\ pc' = [pc EXCEPT ![t] = "done"]
  /\ ret' = [ret EXCEPT ![t] = [NoRet EXCEPT !.code = "INSTANCE",
                                             !.handle = InstanceAddress]]
  /\ UNCHANGED <<tables, call, log, steps, last, budget, crashed, boot>>

\* GetInstance() once the static is initialised.
GetInstanceAgain(t) ==
  /\ ~crashed /\ pc[t] = "idle"
  /\ boot.guard = "done"
  /\ pc' = [pc EXCEPT ![t] = "done"]
  /\ call' = [call EXCEPT ![t] = [NoCall EXCEPT !.op = "GetInstance"]]
  /\ ret' = [ret EXCEPT ![t] = [NoRet EXCEPT !.code = "INSTANCE",
                                             !.handle = InstanceAddress]]
  /\ UNCHANGED <<tables, log, steps, last, budget, crashed, boot>>

\* The process before the first GetInstance(): the catalog may hold a
\* database of the name already.
InitBootstrap ==
  /\ tables = <<>>
  /\ pc = [t \in Threads |-> "idle"]
  /\ call = [t \in Threads |-> NoCall]
  /\ ret = [t \in Threads |-> NoRet]
  /\ log = [t \in Threads |-> <<>>]
  /\ steps = [t \in Threads |-> NoSteps]
  /\ last = [p \in Pairs |-> NoRefresh]
  /\ budget = MaxFaults
  /\ crashed = FALSE
  /\ boot \in {Unbooted(<<>>), Unbooted(<<SAMPLES_DB_NAME>>)}

\* GetInstance() by a thread, at any stage of the static.
GetInstance(t) ==
  \/ GetInstanceFirst(t)
  \/ GetInstanceWait(t)
  \/ CreateSamplesDatabase(t)
  \/ ConstructorReturn(t)
  \/ GetInstanceResume(t)
  \/ GetInstanceAgain(t)
  \/ Return(t)

\* The threads get the instance, any number of times each, and the session
\* calls through it once it is there.
NextBootstrap ==
  \/ \E t \in Threads : GetInstance(t)
  \/ \E t \in Sessions : boot.guard = "done" /\ SessionCall(t, SharedPairs)

SpecBootstrap == InitBootstrap /\ [][NextBootstrap]_vars

\* ---------------------------------------------------------------- naming

\* GenerateSamplesTableName(database_id, table_id), as the handlers call it.
GenerateName(t, p) ==
  /\ ~crashed /\ pc[t] = "idle"
  /\ pc' = [pc EXCEPT ![t] = "done"]
  /\ call' = [call EXCEPT ![t] =
       [NoCall EXCEPT !.op = "GenerateSamplesTableName", !.pair = p]]
  /\ ret' = [ret EXCEPT ![t] =
       [NoRet EXCEPT !.code = "NAME",
                     !.name = GenerateSamplesTableName(p[1], p[2])]]
  /\ UNCHANGED <<tables, log, steps, last, budget, crashed, boot>>

\* The session generates the name of any pair, the statistics job those of
\* the user tables.
NextNaming ==
  \/ \E t \in Sessions, p \in OidPairs : GenerateName(t, p)
  \/ \E t \in Threads \ Sessions, p \in Pairs : GenerateName(t, p)
  \/ \E t \in Threads : Return(t)

SpecNaming == Init /\ [][NextNaming]_vars

\* ----------------------------------------------------------------- claims

Finished(t, op) == pc[t] = "done" /\ call[t].op = op

\* The rows are all the tuples of one refresh, each once and in order.
OneWholeRefresh(rows) ==
  \A k \in 1..Len(rows) :
    rows[k].by = rows[1].by /\ rows[k].n = Len(rows) /\ rows[k].k = k

\* The values a scan hands over, batch after batch, row after row.
ColumnValues(tiles) ==
  LET rows == Flatten(tiles) IN [k \in 1..Len(rows) |-> rows[k].val[1]]

\* C1: in every state the threads can reach by refreshes and deletes, in any
\* order and interleaving, the samples database holds at most one sample
\* table for a pair (database_id, table_id).
C1_AtMostOneSampleTable ==
  \A p \in Pairs : Cardinality(TablesNamed(tables, NameOf(p))) <= 1

\* C1's case: a refresh has tried to create the table while another refresh's
\* table of the same pair was there, and one table is there.
C1_Witness ==
  \E t \in Threads :
    /\ Finished(t, "Collect") /\ ret[t].code = "SUCCESS"
    /\ steps[t].create = "FAILURE"
    /\ Cardinality(TablesNamed(tables, NameOf(call[t].pair))) = 1

\* C2: a sample table never holds more rows than SAMPLE_COUNT_PER_TABLE,
\* whatever refreshes of its user table have run, one after the other or
\* together.
C2_RowCountBounded ==
  \A i \in 1..Len(tables) : Len(tables[i].rows) <= SAMPLE_COUNT_PER_TABLE

\* C3: what GetTupleSamples or GetColumnSamples reads from a sample table is
\* the whole row set one single refresh wrote: never rows of two refreshes,
\* never a part of the rows of one.
C3_ReaderSeesOneRefresh ==
  \A t \in Threads :
    (Finished(t, "GetTupleSamples") \/ Finished(t, "GetColumnSamples"))
      => OneWholeRefresh(Flatten(ret[t].tiles))

C5_RefreshTwice ==
  \A t \in Threads :
    (/\ Finished(t, "Collect") /\ ret[t].code = "SUCCESS"
     /\ steps[t].prev.set /\ steps[t].prev.sampled = call[t].sampled
     /\ ~steps[t].prev.fault /\ ~steps[t].prev.failedInsert
     /\ ~steps[t].this.fault /\ ~steps[t].this.failedInsert)
      => /\ steps[t].this.count = steps[t].prev.count
         /\ steps[t].this.ntables = 1

\* C5's case: the second of two refreshes in a row has returned, both with
\* the same two rows.
C5_Witness ==
  \E t \in Threads :
    /\ Finished(t, "Collect") /\ ret[t].code = "SUCCESS"
    /\ steps[t].prev.set /\ steps[t].prev.sampled = call[t].sampled
    /\ ~steps[t].prev.fault /\ ~steps[t].prev.failedInsert
    /\ ~steps[t].this.fault /\ ~steps[t].this.failedInsert
    /\ Len(call[t].sampled) = 2

\* C6: GetTupleSamples for a pair that has no sample table returns an absent
\* result and commits its transaction; it does not abort the caller.
C6_AbsentReadReturns ==
  \A t \in Threads :
    (call[t].op = "GetTupleSamples" /\ call[t].data_table = 0)
      => /\ pc[t] = "done"
         /\ ret[t].code = "NULL"
         /\ log[t][Len(log[t])] = "Commit"

\* C7: GetColumnSamples appends to the accumulator the column value of every
\* row of every batch of the scan, in scan order, after what it held.
C7_AppendsEveryBatch ==
  \A t \in Threads :
    (Finished(t, "GetColumnSamples") /\ call[t].data_table # 0)
      => ret[t].acc = call[t].acc \o ColumnValues(ret[t].tiles)

\* C8: CollectSamplesForTable returns SUCCESS only when the new sample table
\* was created and every sampled row was inserted; when a step fails it
\* returns another code.
C8_SuccessOnlyWhenComplete ==
  \A t \in Threads :
    (Finished(t, "Collect") /\ ret[t].code = "SUCCESS")
      => /\ steps[t].create = "SUCCESS"
         /\ ~steps[t].this.failedInsert

\* C9: when the table's creation or an insert of a refresh fails, what is
\* committed for the pair is no sample table, or the old table with none of
\* the rows of this refresh: never a part of the sampled rows.
C9_NoPartialTable ==
  \A t \in Threads :
    (/\ Finished(t, "Collect") /\ ret[t].code = "SUCCESS"
     /\ (steps[t].create = "FAILURE" \/ steps[t].this.failedInsert))
      => \/ steps[t].this.ntables = 0
         \/ steps[t].create = "FAILURE" /\ steps[t].this.inserted = <<>>

\* C10: DeleteSamplesTable returns SUCCESS exactly when the sample table of
\* the pair was there and is dropped; otherwise it returns FAILURE and the
\* sample tables are as they were; with and without a caller's transaction.
C10_DeleteResult ==
  [][\A t \in Threads :
       (pc[t] = "idle" /\ pc'[t] = "done" /\ call'[t].op = "Delete")
         => LET name == NameOf(call'[t].pair)
            IN /\ (ret'[t].code = "SUCCESS")
                    <=> (HasTable(tables, name) /\ ~HasTable(tables', name))
               /\ ret'[t].code # "SUCCESS"
                    => ret'[t].code = "FAILURE" /\ tables' = tables]_vars

\* C10's case: a delete under the caller's transaction has dropped the table.
C10_Witness ==
  \E t \in Threads :
    /\ Finished(t, "Delete") /\ call[t].txn = "open"
    /\ ret[t].code = "SUCCESS"

\* How often the event ev is in the log l.
Count(l, ev) == Cardinality({k \in 1..Len(l) : l[k] = ev})

\* The events under the transaction the caller has passed.
CallerEvents == {"DropTable(caller)", "Commit(caller)"}

\* C11: DeleteSamplesTable with a transaction of the caller drops under that
\* transaction and returns with it open: it neither commits it nor begins
\* another.  Without one it begins one transaction, drops under it and commits
\* it once before it returns, whether the drop succeeded or not.
C11_DeleteTransaction ==
  \A t \in Threads :
    Finished(t, "Delete")
      => /\ ret[t].code \in {"SUCCESS", "FAILURE"}
         /\ call[t].txn = "open" => log[t] = <<"DropTable(caller)">>
         /\ call[t].txn = "null" => log[t] = <<"Begin", "DropTable", "Commit">>

\* C11's case: a delete under the caller's transaction has returned, the drop
\* having failed.
C11_Witness ==
  \E t \in Threads :
    /\ Finished(t, "Delete") /\ call[t].txn = "open"
    /\ ret[t].code = "FAILURE"
    /\ Count(log[t], "DropTable(caller)") = 1

\* C12: however many GetInstance() calls the threads make, one after the
\* other or together, the constructor's transaction runs once (one Begin, one
\* CreateDatabase, one Commit in all), the samples database is there once,
\* and every call returns the same handle.
C12_CreatedOnce ==
  /\ \A e \in {"Begin", "CreateDatabase", "Commit"} : Count(boot.log, e) <= 1
  /\ Count(boot.databases, SAMPLES_DB_NAME) <= 1
  /\ \A t \in Threads :
       Finished(t, "GetInstance")
         => /\ boot.log = <<"Begin", "CreateDatabase", "Commit">>
            /\ boot.guard = "done"
            /\ ret[t].handle = InstanceAddress
            /\ boot.result = "SUCCESS"
                 => Count(boot.databases, SAMPLES_DB_NAME) = 1
  /\ \A t, u \in Threads :
       (Finished(t, "GetInstance") /\ Finished(u, "GetInstance"))
         => ret[t].handle = ret[u].handle

\* C12's case: two threads have called GetInstance() and both calls have
\* returned, one of them having run the constructor, which created the
\* database.
C12_Witness ==
  \E t, u \in Threads :
    /\ t # u
    /\ Finished(t, "GetInstance") /\ log[t] # <<>>
    /\ Finished(u, "GetInstance") /\ log[u] = <<>>
    /\ boot.result = "SUCCESS"

\* C13: when CreateDatabase fails in the constructor, the call of
\* GetInstance() that ran the constructor does not return the instance as if
\* the database had been created: the failure reaches its caller.
C13_FailurePropagates ==
  \A t \in Threads :
    (Finished(t, "GetInstance") /\ log[t] # <<>> /\ boot.result = "FAILURE")
      => ret[t].code # "INSTANCE"

\* C14: CollectSamplesForTable without a transaction returns FAILURE at once
\* and InsertSampleTuple without a transaction returns false at once: no
\* transaction is begun, nothing is sampled, dropped, created or inserted.
C14_NoTxnFailsAtOnce ==
  [][\A t \in Threads :
       (/\ pc[t] = "idle" /\ pc'[t] # "idle"
        /\ call'[t].op \in {"Collect", "InsertSampleTuple"}
        /\ call'[t].txn = "null")
         => /\ pc'[t] = "done"
            /\ ret'[t].code = (IF call'[t].op = "Collect" THEN "FAILURE"
                               ELSE "FALSE")
            /\ tables' = tables
            /\ log'[t] = <<>>
            /\ steps'[t] = steps[t]
            /\ call'[t].op = "Collect" => call'[t].sampled = <<>>]_vars

\* C14's case: InsertSampleTuple without a transaction has returned, the
\* sample table of the pair being there.
C14_Witness ==
  \E t \in Threads :
    /\ Finished(t, "InsertSampleTuple") /\ call[t].txn = "null"
    /\ call[t].data_table # 0
    /\ ret[t].code = "FALSE"

\* No two pairs of oids have the same name.
NamesDiffer ==
  \A p, q \in OidPairs : NameOf(p) = NameOf(q) => p = q

\* C15: the name of the sample table is a function of the pair that gives
\* different pairs different names (name(1,23) is not name(12,3)) and the
\* same pair the same name at every call.
C15_NameInjective ==
  /\ NamesDiffer
  /\ \A t, u \in Threads :
       (/\ Finished(t, "GenerateSamplesTableName")
        /\ Finished(u, "GenerateSamplesTableName"))
         => (ret[t].name = ret[u].name <=> call[t].pair = call[u].pair)

\* C15's case: the names of (12,3) and (1,23) have been generated.
C15_Witness ==
  \E t, u \in Threads :
    /\ Finished(t, "GenerateSamplesTableName") /\ call[t].pair = <<12, 3>>
    /\ Finished(u, "GenerateSamplesTableName") /\ call[u].pair = <<1, 23>>
    /\ ret[t].name # ret[u].name

\* C16: when the scan of a sample table that is there yields no batch,
\* GetColumnSamples leaves the accumulator as it was on entry, commits its
\* transaction and returns without an error.
C16_EmptyScanKeepsAccumulator ==
  \A t \in Threads :
    (/\ call[t].op = "GetColumnSamples" /\ pc[t] # "idle"
     /\ call[t].data_table # 0
     /\ RowCount(tables, NameOf(call[t].pair)) = 0)
      => /\ pc[t] = "done" /\ ~crashed
         /\ ret[t].code = "VOID"
         /\ ret[t].tiles = <<>>
         /\ ret[t].acc = call[t].acc
         /\ log[t] = <<"Begin", "GetTableWithName", "Scan", "Commit">>

\* C16's case: GetColumnSamples has returned from a sample table without
\* rows, the accumulator having held a value on entry.
C16_Witness ==
  \E t \in Threads :
    /\ Finished(t, "GetColumnSamples")
    /\ call[t].data_table # 0 /\ ret[t].tiles = <<>>
    /\ call[t].acc = <<7>> /\ ret[t].acc = <<7>>

\* The calls of the second transaction of a refresh that inserts n rows.
AddLog(n) ==
  <<"Begin", "CreateTable", "GetTableWithName">>
  \o [k \in 1..n |-> "Insert"] \o <<"Commit">>

\* C17: a refresh under a transaction of the caller runs two transactions of
\* its own, in this order: one that drops the old sample table and is
\* committed, then one in which the table is created and every sampled row is
\* inserted before its one commit.
C17_TwoTransactionsInOrder ==
  \A t \in Threads :
    (call[t].op = "Collect" /\ call[t].txn = "open")
      => /\ pc[t] = "collect_delete" => log[t] = <<>>
         /\ pc[t] = "collect_add" => log[t] = <<"Begin", "DropTable", "Commit">>
         /\ pc[t] = "done"
              => /\ log[t] = <<"Begin", "DropTable", "Commit">>
                             \o AddLog(Len(call[t].sampled))
                 /\ Count(log[t], "Begin") = 2 /\ Count(log[t], "Commit") = 2

\* C17's case: between the two commits of a refresh, the sample table that
\* was there before it is not there.
C17_Witness ==
  \E t \in Threads :
    /\ call[t].op = "Collect" /\ call[t].txn = "open"
    /\ pc[t] = "collect_add" /\ steps[t].drop = "SUCCESS"
    /\ log[t] = <<"Begin", "DropTable", "Commit">>
    /\ ~HasTable(tables, NameOf(call[t].pair))

\* C18: every transaction begun in this file is committed once by the
\* operation that began it, before the operation returns, on every path, the
\* paths where a catalog call fails or the sample table is missing included;
\* the transaction passed to CollectSamplesForTable is never committed and
\* never used.
C18_TransactionBalance ==
  /\ Count(boot.log, "Begin") = Count(boot.log, "Commit")
  /\ \A t \in Threads :
       /\ Count(log[t], "Begin") = Count(log[t], "Commit")
       /\ Count(log[t], "Commit(caller)") = 0
       /\ call[t].op = "Collect"
            => \A k \in 1..Len(log[t]) : log[t][k] \notin CallerEvents

\* C19: a refresh that finds no sample table of its pair goes on after the
\* drop has failed: when nothing else touches the pair meanwhile and no
\* catalog call or insert fails for internal reasons, it creates the table,
\* inserts every sampled row and returns SUCCESS, and the table is there.
C19_FirstRefreshSucceeds ==
  \A t \in Threads :
    (/\ Finished(t, "Collect") /\ call[t].txn = "open"
     /\ steps[t].drop = "FAILURE"
     /\ ~steps[t].interfered
     /\ ~steps[t].this.fault /\ ~steps[t].this.failedInsert)
      => /\ ret[t].code = "SUCCESS"
         /\ steps[t].create = "SUCCESS"
         /\ steps[t].this.inserted = Tag(call[t].sampled, t)
         /\ steps[t].this.ntables = 1
         /\ steps[t].this.count = Len(call[t].sampled)

\* C19's case: the refresh of a pair without a sample table has returned,
\* having sampled two rows, and the table holds them.
C19_Witness ==
  \E t \in Threads :
    /\ Finished(t, "Collect") /\ call[t].txn = "open"
    /\ steps[t].drop = "FAILURE" /\ ~steps[t].interfered
    /\ ~steps[t].this.fault /\ ~steps[t].this.failedInsert
    /\ Len(call[t].sampled) = 2
    /\ RowCount(tables, NameOf(call[t].pair)) = 2

\* The sample tables of pair q, with their rows.
TablesOf(cat, q) == SelectSeq(cat, LAMBDA r : r.name = NameOf(q))

\* C20: a step of a refresh or of a delete of a pair leaves the sample table
\* of every other pair as it was, there or not and row by row; a step of
\* GetTupleSamples or GetColumnSamples leaves every sample table as it was.
C20_Frame ==
  [][\A t \in Threads :
       LET c == IF pc[t] = "idle" THEN call'[t] ELSE call[t]
       IN pc'[t] # pc[t]
            => /\ c.op \in {"Collect", "Delete"}
                    => \A q \in Pairs \ {c.pair} :
                         TablesOf(tables', q) = TablesOf(tables, q)
               /\ c.op \in {"GetTupleSamples", "GetColumnSamples"}
                    => tables' = tables]_vars

\* C20's case: a refresh of one pair has dropped the old sample table and
\* made the new one, the sample table of the other pair being there with rows.
C20_Witness ==
  \E t \in Threads :
    /\ Finished(t, "Collect") /\ ret[t].code = "SUCCESS"
    /\ steps[t].drop = "SUCCESS" /\ steps[t].create = "SUCCESS"
    /\ \E q \in Pairs \ {call[t].pair} : RowCount(tables, NameOf(q)) > 0

====
